---- MODULE Spec2Model ----
(***************************************************************************)
(* Model of lab/blockchain-explorer/pt2/blockchain_explorer2.py: the       *)
(* BitcoinClusterAnalyzer (cluster traversal, historical balance, Gini     *)
(* coefficient, Benford test, analyze).                                    *)
(***************************************************************************)
EXTENDS Integers, Sequences, FiniteSets, TLC

\* ---------------------------------------------------------------- bounds
NumAddr == 3
MaxTxs == 2
\* the longest list and the largest value passed to calculate_gini directly
GiniMaxLen == 4
GiniMaxValue == 2
\* selfmin.py: the most blocks the most powerful miner has in the month, and
\* the most permutations generated (num_permutations)
MaxMinerBlocks == 3
MaxPermutations == 2
\* blockchain_explorer1.py: the most transactions in a raw block
MaxBlockTxs == 3

\* ------------------------------------------------------------ input data
Addr == 1..NumAddr
\* the value of entry.addr when the JSON object has no 'addr' key
NoAddr == 0

\* the value of entry.value when the JSON object has no 'value' key
NoValue == -1

\* class Transaction
Transaction(h, t, ins, outs) ==
    [hash |-> h, time |-> t, inputs |-> ins, outputs |-> outs]

\* what open()/json.load()/the list comprehension of load_address_data can do
Statuses == {"ok", "FileNotFoundError", "JSONDecodeError", "KeyError"}
\* a file no load_address_data call has opened yet
Unopened == "unopened"

VARIABLES
    rawaddr,             \* the folder: address -> [status, txs]
    cluster,             \* self.cluster
    transactions,        \* self.transactions (defaultdict(list))
    historical_balance,  \* self.historical_balance (defaultdict(int))
    missing_files,       \* self.missing_files
    to_process,          \* local of cluster_address
    start_address,       \* argument of the running / last call
    pc,                  \* position of the running call
    call,                \* the running / last top-level call
    calls,               \* number of top-level calls made
    enqueued,            \* per address: times put on to_process in this traversal
    loaded,              \* per address: load_address_data calls in this traversal
    history,             \* the completed traversals: <<start_address, cluster>>
    values,              \* the argument of calculate_gini
    gini,                \* the outcome of calculate_gini (analyze's local gini)
    benfords,            \* the outcome of the last apply_benfords_law
    result,              \* the outcome of the last analyze
    sequences,           \* selfmin.py, main: the miner's runs in the month
    perm_sequences,      \* selfmin.py, main: the miner's runs in each permutation
    pvalue,              \* selfmin.py, main: what calc_pvalue returned
    epc,                 \* blockchain_explorer1.py: position of explore_latest_block
    url,                 \* argument of the running / last _make_request
    attempt,             \* loop variable of _make_request
    log,                 \* the GETs and sleeps of the running / last _make_request
    outcome,             \* how the last _make_request ended
    block                \* the Block get_latest_block returned

vars == <<rawaddr, cluster, transactions, historical_balance, missing_files,
          to_process, start_address, pc, call, calls, enqueued, loaded, history,
          values, gini, benfords, result, sequences, perm_sequences, pvalue,
          epc, url, attempt, log, outcome, block>>

\* the variables of the analyzer of blockchain_explorer2.py
analyzer == <<rawaddr, cluster, transactions, historical_balance, missing_files,
              to_process, start_address, pc, call, calls, enqueued, loaded, history,
              values, gini, benfords, result>>

\* the variables of blockchain_explorer1.py
explorer == <<epc, url, attempt, log, outcome, block>>

\* the variables of selfmin.py, which the analyzer does not touch
selfmin == <<sequences, perm_sequences, pvalue>>

\* ------------------------------------------------------- record store
\* The chain the folder was downloaded from is a list of at most MaxTxs
\* transfers, each with one input and one output that carry the same value.
\* The input is a coinbase (no 'prev_out'), a prev_out without 'addr', or a
\* prev_out of an address; the output has an address or none.
Coinbase == NumAddr + 1
PrevOutNoAddr == NumAddr + 2
InputKinds == Addr \cup {Coinbase, PrevOutNoAddr}
OutputKinds == {NoAddr} \cup Addr
Transfers == InputKinds \X OutputKinds

\* a total order on the transfers, to list each multiset of them once
Rank(tr) == tr[1] * (NumAddr + 1) + tr[2]
Ledgers ==
    UNION {{l \in [1..n -> Transfers] :
              \A i \in 1..(n - 1) : Rank(l[i]) <= Rank(l[i + 1])} : n \in 0..MaxTxs}

\* the amount every transfer moves: one whose leading digit is 9
TransferValue(h) == 9

RawInput(k, v) ==
    [prev_out |-> k # Coinbase,
     addr |-> IF k \in Addr THEN k ELSE NoAddr,
     value |-> v]

\* transaction h of the chain: its hash and its time are its place in it
LedgerTx(ledger, h) ==
    Transaction(h, h, <<RawInput(ledger[h][1], TransferValue(h))>>,
                <<[addr |-> ledger[h][2], value |-> TransferValue(h)]>>)

Touches(tx, a) ==
    \/ \E i \in DOMAIN tx.inputs : tx.inputs[i].prev_out /\ tx.inputs[i].addr = a
    \/ \E i \in DOMAIN tx.outputs : tx.outputs[i].addr = a

\* <address>.json lists the transactions that touch the address, newest first
RECURSIVE TxsOf(_, _, _)
TxsOf(ledger, a, h) ==
    IF h = 0 THEN <<>>
    ELSE (IF Touches(LedgerTx(ledger, h), a) THEN <<LedgerTx(ledger, h)>> ELSE <<>>)
         \o TxsOf(ledger, a, h - 1)

\* the folders of the chains of at most MaxTxs transfers
LedgerStores ==
    {[a \in Addr |-> [status |-> Unopened, txs |-> TxsOf(ledger, a, Len(ledger))]] :
        ledger \in Ledgers}

\* The folder of the end-to-end scenario: A = 1, B = 2; at time 100 A sends 10
\* units to B, at time 200 B sends 4 units to an output without address.
\* A.json holds the first transaction, B.json both, newest first.
EndToEndTx100 ==
    Transaction(100, 100, <<[prev_out |-> TRUE, addr |-> 1, value |-> 10]>>,
                <<[addr |-> 2, value |-> 10]>>)
EndToEndTx200 ==
    Transaction(200, 200, <<[prev_out |-> TRUE, addr |-> 2, value |-> 4]>>,
                <<[addr |-> NoAddr, value |-> 4]>>)
EndToEndStore ==
    [a \in Addr |->
        [status |-> Unopened,
         txs |-> IF a = 1 THEN <<EndToEndTx100>>
                 ELSE IF a = 2 THEN <<EndToEndTx200, EndToEndTx100>>
                 ELSE <<>>]]

\* The folder of a chain of one transaction with two outputs: a coinbase that
\* pays 5 units to address 1 and 4 units to address 2; the transaction is
\* listed in the file of each.
TwoOutputsTx ==
    Transaction(1, 1, <<[prev_out |-> FALSE, addr |-> NoAddr, value |-> 9]>>,
                <<[addr |-> 1, value |-> 5], [addr |-> 2, value |-> 4]>>)
TwoOutputsStore ==
    [a \in Addr |->
        [status |-> Unopened, txs |-> IF a \in {1, 2} THEN <<TwoOutputsTx>> ELSE <<>>]]

\* The folder of a chain of one transaction whose output lacks 'value':
\* address 2 pays 9 units to address 1; the transaction is listed in the file
\* of each.
NoValueTx ==
    Transaction(1, 1, <<[prev_out |-> TRUE, addr |-> 2, value |-> 9]>>,
                <<[addr |-> 1, value |-> NoValue]>>)
NoValueStore ==
    [a \in Addr |->
        [status |-> Unopened, txs |-> IF a \in {1, 2} THEN <<NoValueTx>> ELSE <<>>]]

\* the folders an analyzer is created on
Stores == LedgerStores \cup {EndToEndStore, TwoOutputsStore, NoValueStore}

\* ---------------------------------------------------- load_address_data
\* (mutant) the transactions are stored before the failure is noticed
LoadTransactionsIgnoreStatus(address, st) ==
    [transactions EXCEPT ![address] = rawaddr[address].txs]

\* self.transactions after load_address_data(address): assigned only when the
\* file opens, decodes and every transaction has its keys
LoadTransactions(address, st) ==
    IF st = "ok"
    THEN [transactions EXCEPT ![address] = rawaddr[address].txs]
    ELSE transactions

\* (mutant) the missing file is not recorded
LoadMissingFilesNever(address, st) == missing_files

\* self.missing_files after load_address_data(address)
LoadMissingFiles(address, st) ==
    IF st = "FileNotFoundError"
    THEN missing_files \cup {address}
    ELSE missing_files

\* ------------------------------------------------------ cluster_address
\* (mutant) line 79 left out: the inputs are not looked at
NewAddressesOutputsOnly(tx) ==
    {tx.outputs[i].addr : i \in {j \in DOMAIN tx.outputs : tx.outputs[j].addr # NoAddr}}

\* (mutant) line 80 left out: the outputs are not looked at
NewAddressesInputsOnly(tx) ==
    {tx.inputs[i].addr : i \in {j \in DOMAIN tx.inputs :
                                  tx.inputs[j].prev_out /\ tx.inputs[j].addr # NoAddr}}

\* new_addresses of one transaction (lines 78-80)
NewAddresses(tx) ==
    {tx.inputs[i].addr : i \in {j \in DOMAIN tx.inputs :
                                  tx.inputs[j].prev_out /\ tx.inputs[j].addr # NoAddr}}
    \cup {tx.outputs[i].addr : i \in {j \in DOMAIN tx.outputs : tx.outputs[j].addr # NoAddr}}

\* (mutant) no membership check before the addresses are queued
NewClusterAddressesNoCheck(tx, clu) == NewAddresses(tx)

\* new_cluster_addresses (line 83)
NewClusterAddresses(tx, clu) == NewAddresses(tx) \ clu

\* a counter of the events of one traversal that stops at "more than once"
Count(n) == IF n < 2 THEN n + 1 ELSE n

\* (mutant) line 85 assigns to_process instead of updating it
RECURSIVE ForTxsAssign(_, _, _, _, _)
ForTxsAssign(txs, i, clu, todo, enq) ==
    IF i > Len(txs)
    THEN [cluster |-> clu, to_process |-> todo, enqueued |-> enq]
    ELSE LET new == NewClusterAddresses(txs[i], clu)
         IN ForTxsAssign(txs, i + 1, clu \cup new, IF new = {} THEN todo ELSE new,
                         [a \in Addr |-> IF a \in new THEN Count(enq[a]) ELSE enq[a]])

\* (mutant) the for loop is left at the first transaction that adds addresses
RECURSIVE ForTxsBreak(_, _, _, _, _)
ForTxsBreak(txs, i, clu, todo, enq) ==
    IF i > Len(txs)
    THEN [cluster |-> clu, to_process |-> todo, enqueued |-> enq]
    ELSE LET new == NewClusterAddresses(txs[i], clu)
             e == [a \in Addr |-> IF a \in new THEN Count(enq[a]) ELSE enq[a]]
         IN IF new # {}
            THEN [cluster |-> clu \cup new, to_process |-> todo \cup new, enqueued |-> e]
            ELSE ForTxsBreak(txs, i + 1, clu, todo, enq)

\* (mutant) line 84 left out: the new addresses are queued but not added to
\* the cluster
RECURSIVE ForTxsQueueOnly(_, _, _, _, _)
ForTxsQueueOnly(txs, i, clu, todo, enq) ==
    IF i > Len(txs)
    THEN [cluster |-> clu, to_process |-> todo, enqueued |-> enq]
    ELSE LET new == NewClusterAddresses(txs[i], clu)
         IN ForTxsQueueOnly(txs, i + 1, clu, todo \cup new,
                            [a \in Addr |-> IF a \in new THEN Count(enq[a]) ELSE enq[a]])

\* the for loop over self.transactions[current_address] (lines 76-85), from
\* transaction i on; enq counts the additions to to_process
RECURSIVE ForTxs(_, _, _, _, _)
ForTxs(txs, i, clu, todo, enq) ==
    IF i > Len(txs)
    THEN [cluster |-> clu, to_process |-> todo, enqueued |-> enq]
    ELSE LET new == NewClusterAddresses(txs[i], clu)
         IN ForTxs(txs, i + 1, clu \cup new, todo \cup new,
                   [a \in Addr |-> IF a \in new THEN Count(enq[a]) ELSE enq[a]])

\* ------------------------------------------ calculate_historical_balance
\* sorted(txs, key=lambda x: x.time): stable, ascending
RECURSIVE InsertByTime(_, _)
InsertByTime(sorted, tx) ==
    IF sorted = <<>> THEN <<tx>>
    ELSE IF sorted[Len(sorted)].time <= tx.time THEN Append(sorted, tx)
    ELSE Append(InsertByTime(SubSeq(sorted, 1, Len(sorted) - 1), tx),
                sorted[Len(sorted)])

RECURSIVE SortedIter(_, _, _)
SortedIter(txs, i, acc) ==
    IF i > Len(txs) THEN acc ELSE SortedIter(txs, i + 1, InsertByTime(acc, txs[i]))

SortedByTime(txs) == SortedIter(txs, 1, <<>>)

RECURSIVE SumInputsOf(_, _, _)
SumInputsOf(ins, i, S) ==
    IF i > Len(ins) THEN 0
    ELSE (IF ins[i].prev_out /\ ins[i].addr \in S THEN ins[i].value ELSE 0)
         + SumInputsOf(ins, i + 1, S)

RECURSIVE SumOutputsOf(_, _, _)
SumOutputsOf(outs, i, S) ==
    IF i > Len(outs) THEN 0
    ELSE (IF outs[i].addr \in S THEN outs[i].value ELSE 0)
         + SumOutputsOf(outs, i + 1, S)

\* inp['prev_out']['value'] (lines 100, 119) or out['value'] (lines 105, 120)
\* is read of an entry of tx that has no 'value': KeyError
ValueKeyError(tx, S) ==
    \/ \E i \in DOMAIN tx.inputs :
          tx.inputs[i].prev_out /\ tx.inputs[i].addr \in S /\ tx.inputs[i].value = NoValue
    \/ \E i \in DOMAIN tx.outputs :
          tx.outputs[i].addr \in S /\ tx.outputs[i].value = NoValue

\* what one transaction adds to balance for the address iterated (lines 98-105)
BalanceDelta(tx, address) ==
    SumOutputsOf(tx.outputs, 1, {address}) - SumInputsOf(tx.inputs, 1, {address})

\* self.historical_balance[t] = b
SetBalance(hb, t, b) ==
    [k \in DOMAIN hb \cup {t} |-> IF k = t THEN b ELSE hb[k]]

\* the inner loop (lines 96-108) over the sorted transactions of one address;
\* raised: a KeyError ended it
RECURSIVE BalanceTxs(_, _, _, _, _)
BalanceTxs(txs, i, address, balance, hb) ==
    IF i > Len(txs) THEN [balance |-> balance, hb |-> hb, raised |-> FALSE]
    ELSE IF ValueKeyError(txs[i], {address})
    THEN [balance |-> balance, hb |-> hb, raised |-> TRUE]
    ELSE LET b == balance + BalanceDelta(txs[i], address)
         IN BalanceTxs(txs, i + 1, address, b, SetBalance(hb, txs[i].time, b))

\* the outer loop (line 94) over the addresses in iteration order
RECURSIVE BalanceAddrs(_, _, _, _)
BalanceAddrs(order, i, balance, hb) ==
    IF i > Len(order) THEN [hb |-> hb, raised |-> FALSE]
    ELSE LET r == BalanceTxs(SortedByTime(transactions[order[i]]), 1, order[i],
                             balance, hb)
         IN IF r.raised THEN [hb |-> r.hb, raised |-> TRUE]
            ELSE BalanceAddrs(order, i + 1, r.balance, r.hb)

\* the orders a Python set of these elements can be iterated in
IterationOrders(S) ==
    {f \in [1..Cardinality(S) -> S] : \A i, j \in DOMAIN f : f[i] = f[j] => i = j}

\* ---------------------------------------------------- _get_cluster_values
NetFlow(tx) ==
    SumOutputsOf(tx.outputs, 1, cluster) - SumInputsOf(tx.inputs, 1, cluster)

Abs(x) == IF x < 0 THEN 0 - x ELSE x

RECURSIVE ValuesOfTxs(_, _)
ValuesOfTxs(txs, i) ==
    IF i > Len(txs) THEN <<>>
    ELSE (IF NetFlow(txs[i]) # 0 THEN <<Abs(NetFlow(txs[i]))>> ELSE <<>>)
         \o ValuesOfTxs(txs, i + 1)

\* the values yielded, the cluster's addresses taken in ascending order (the
\* only consumer, np.bincount, does not depend on the order)
RECURSIVE ClusterValuesFrom(_)
ClusterValuesFrom(a) ==
    IF a > NumAddr THEN <<>>
    ELSE (IF a \in cluster THEN ValuesOfTxs(transactions[a], 1) ELSE <<>>)
         \o ClusterValuesFrom(a + 1)

GetClusterValues == ClusterValuesFrom(1)

\* the generator raises KeyError (lines 119-120)
ClusterValuesKeyError ==
    \E a \in cluster : \E i \in DOMAIN transactions[a] :
        ValueKeyError(transactions[a][i], cluster)

\* --------------------------------------------------------- calculate_gini
\* An outcome of a statistic: kind is "value" (the fraction num / den), "nan",
\* "inf" (numpy's results of 0/0 and x/0, returned with a warning), or "raise"
\* (the exception exc); "not_run" before the statistic is computed.
Outcome(kind, exc, num, den, observed) ==
    [kind |-> kind, exc |-> exc, num |-> num, den |-> den, observed |-> observed]
NotRun == Outcome("not_run", "", 0, 1, <<>>)
Raised(exc) == Outcome("raise", exc, 0, 1, <<>>)

RECURSIVE InsertInt(_, _)
InsertInt(sorted, v) ==
    IF sorted = <<>> THEN <<v>>
    ELSE IF sorted[Len(sorted)] <= v THEN Append(sorted, v)
    ELSE Append(InsertInt(SubSeq(sorted, 1, Len(sorted) - 1), v), sorted[Len(sorted)])

\* (mutant) the values are used in the order given
SortedIntsUnsorted(vs, i, acc) == vs

RECURSIVE SortedInts(_, _, _)
SortedInts(vs, i, acc) ==
    IF i > Len(vs) THEN acc ELSE SortedInts(vs, i + 1, InsertInt(acc, vs[i]))

RECURSIVE SumSeq(_, _)
SumSeq(vs, i) == IF i > Len(vs) THEN 0 ELSE vs[i] + SumSeq(vs, i + 1)

\* np.sum(index * values), index = 1..n
RECURSIVE RankSum(_, _)
RankSum(vs, i) == IF i > Len(vs) THEN 0 ELSE i * vs[i] + RankSum(vs, i + 1)

\* line 139: (2 * np.sum(index * values) / (n * np.sum(values))) - (n + 1) / n.
\* The left quotient is a numpy division (0/0 is nan, x/0 is inf, no
\* exception); (n + 1) / n divides Python ints and raises for n = 0.
CalculateGini(vs) ==
    LET sorted == SortedInts(vs, 1, <<>>)
        n == Len(sorted)
        top == 2 * RankSum(sorted, 1)
        bottom == n * SumSeq(sorted, 1)
    IN IF n = 0 THEN Raised("ZeroDivisionError")
       ELSE IF bottom = 0
            THEN Outcome(IF top = 0 THEN "nan" ELSE "inf", "", 0, 1, <<>>)
            ELSE Outcome("value", "", top - (n + 1) * SumSeq(sorted, 1), bottom, <<>>)

\* list(self.historical_balance.values()), the keys >= k in ascending order
\* (calculate_gini sorts the list)
RECURSIVE BalanceValues(_, _)
BalanceValues(hb, k) ==
    LET rest == {t \in DOMAIN hb : t >= k}
    IN IF rest = {} THEN <<>>
       ELSE LET m == CHOOSE t \in rest : \A u \in rest : t <= u
            IN <<hb[m]>> \o BalanceValues(hb, m + 1)

\* ----------------------------------------------------- apply_benfords_law
\* int(str(value)[0]) of a positive integer
RECURSIVE LeadingDigit(_)
LeadingDigit(v) == IF v < 10 THEN v ELSE LeadingDigit(v \div 10)

RECURSIVE MaxOf(_, _)
MaxOf(ds, i) ==
    IF i > Len(ds) THEN 0
    ELSE LET m == MaxOf(ds, i + 1) IN IF ds[i] > m THEN ds[i] ELSE m

CountOf(ds, d) == Cardinality({i \in DOMAIN ds : ds[i] = d})

\* (mutant) np.bincount(values, minlength=10): ten counts at least
BincountMinlength(ds) ==
    [i \in 1..(IF MaxOf(ds, 1) + 1 < 10 THEN 10 ELSE MaxOf(ds, 1) + 1) |->
        CountOf(ds, i - 1)]

\* np.bincount(values): the counts of 0..max(values), nothing for no values;
\* element d + 1 of the sequence is the count of d
Bincount(ds) ==
    IF Len(ds) = 0 THEN <<>>
    ELSE [i \in 1..(MaxOf(ds, 1) + 1) |-> CountOf(ds, i - 1)]

\* np.bincount(values)[1:] / len(values): each frequency is <<count, total>>,
\* which is nan when both are 0
ObservedFreq(ds) ==
    LET counts == Bincount(ds)
    IN [d \in 1..(Len(counts) - 1) |-> <<counts[d + 1], Len(ds)>>]

IsNaN(freq) == freq[1] = 0 /\ freq[2] = 0

\* stats.chisquare(observed_freq, expected_freq) and the returned dictionary:
\* expected_freq has 9 entries, and observed_freq must broadcast against it.
\* A single observed frequency broadcasts to nine equal ones, whose sum scipy
\* (since 1.6) refuses when it differs from the expected sum; older versions
\* return a statistic.
BenfordOutcomes(flows) ==
    IF ClusterValuesKeyError THEN {Raised("KeyError")} ELSE
    LET ds == [i \in DOMAIN flows |-> LeadingDigit(flows[i])]
        obs == ObservedFreq(ds)
        nan == \E d \in DOMAIN obs : IsNaN(obs[d])
        ret == Outcome(IF nan THEN "nan" ELSE "value", "", 0, 1, obs)
    IN IF Len(obs) = 9 THEN {ret}
       ELSE IF Len(obs) = 1 THEN {ret, Raised("ValueError")}
       ELSE {Raised("ValueError")}

\* ---------------------------------------------------------------- analyze
NoResult ==
    [kind |-> "none", exc |-> "", cluster_size |-> 0, historical_balance |-> <<>>,
     gini_coefficient |-> NotRun, benfords_law |-> NotRun,
     addresses_without_data |-> 0]

\* the fields of a new analyzer (lines 26-32) and no call made
NewAnalyzer ==
    /\ cluster = {}
    /\ transactions = [a \in Addr |-> <<>>]
    /\ historical_balance = <<>>
    /\ missing_files = {}
    /\ to_process = {}
    /\ start_address = NoAddr
    /\ pc = "idle"
    /\ call = "none"
    /\ calls = 0
    /\ enqueued = [a \in Addr |-> 0]
    /\ loaded = [a \in Addr |-> 0]
    /\ history = <<>>
    /\ gini = NotRun
    /\ benfords = NotRun
    /\ result = NoResult

\* selfmin.py is not run
NoPvalue == [num |-> 0, den |-> 0]
NoSelfmin ==
    /\ sequences = <<>>
    /\ perm_sequences = <<>>
    /\ pvalue = NoPvalue

\* blockchain_explorer1.py is not run
NoOutcome == [kind |-> "none"]
NoBlock == [type |-> "NoneType"]
NoExplorer ==
    /\ epc = "off"
    /\ url = ""
    /\ attempt = 0
    /\ log = <<>>
    /\ outcome = NoOutcome
    /\ block = NoBlock

Init ==
    /\ rawaddr \in Stores
    /\ values = <<>>
    /\ NewAnalyzer
    /\ NoSelfmin
    /\ NoExplorer

\* The script makes one call, analyze, on a new analyzer (lines 247-250). The
\* methods analyze is made of are also followed called one by one, for the
\* first two calls on a new analyzer.
TopLevel(c) ==
    /\ pc = "idle"
    /\ calls \in {0, 1}
    /\ call # "analyze"
    /\ calls' = calls + 1
    /\ call' = c

\* lines 68-69, entered from the top-level call c; a second traversal of the
\* analyzer starts from the seed of its first call
EnterClusterAddress(c, s) ==
    /\ TopLevel(c)
    /\ calls = 1 => s = start_address
    /\ cluster' = cluster \cup {s}
    /\ to_process' = {s}
    /\ start_address' = s
    /\ pc' = "while"
    /\ enqueued' = [a \in Addr |-> IF a = s THEN 1 ELSE 0]
    /\ loaded' = [a \in Addr |-> 0]
    /\ UNCHANGED <<rawaddr, transactions, historical_balance, missing_files, history,
                   values, gini, benfords, result>>
    /\ UNCHANGED <<selfmin, explorer>>

\* a call of cluster_address(s)
ClusterAddress(s) == EnterClusterAddress("cluster_address", s)

\* a call of analyze(s): line 172 enters cluster_address
Analyze(s) == calls = 0 /\ EnterClusterAddress("analyze", s)

\* one turn of the while loop (lines 72-85): pop, load, the for loop, and the
\* loop test that follows it
WhileBody(current_address) ==
    /\ pc = "while"
    /\ current_address \in to_process
    /\ \E st \in Statuses :
       /\ rawaddr[current_address].status \in {Unopened, st}
       /\ rawaddr' = [rawaddr EXCEPT ![current_address].status = st]
       /\ LET txs == LoadTransactions(current_address, st)
               r == ForTxs(txs[current_address], 1, cluster,
                           to_process \ {current_address}, enqueued)
          IN
          /\ transactions' = txs
          /\ missing_files' = LoadMissingFiles(current_address, st)
          /\ cluster' = r.cluster
          /\ to_process' = r.to_process
          /\ enqueued' = r.enqueued
          /\ loaded' = [loaded EXCEPT ![current_address] = Count(@)]
          /\ IF r.to_process = {}
             THEN /\ pc' = IF call = "analyze" THEN "calculate_historical_balance"
                           ELSE "idle"
                  /\ history' = Append(history, <<start_address, r.cluster>>)
             ELSE /\ pc' = "while"
                  /\ history' = history
    /\ UNCHANGED <<historical_balance, start_address, call, calls, values, gini,
                   benfords, result>>
    /\ UNCHANGED <<selfmin, explorer>>

\* the exception exc leaves analyze
AnalyzeRaises(exc, g) ==
    [kind |-> "raise", exc |-> exc, cluster_size |-> 0, historical_balance |-> <<>>,
     gini_coefficient |-> g, benfords_law |-> NotRun, addresses_without_data |-> 0]

\* calculate_historical_balance(), iterating self.cluster in some order;
\* raised: a KeyError left it, the entries written before it are kept
HistoricalBalanceStep(raised) ==
    /\ \E order \in IterationOrders(cluster) :
          LET r == BalanceAddrs(order, 1, 0, historical_balance)
          IN historical_balance' = r.hb /\ raised = r.raised
    /\ UNCHANGED <<rawaddr, cluster, transactions, missing_files, to_process,
                   start_address, enqueued, loaded, history, values, gini, benfords>>
    /\ UNCHANGED <<selfmin, explorer>>

\* a call of calculate_historical_balance()
CalculateHistoricalBalance ==
    /\ TopLevel("calculate_historical_balance")
    /\ pc' = "idle"
    /\ \E raised \in BOOLEAN : HistoricalBalanceStep(raised)
    /\ UNCHANGED result

\* analyze, line 176: an exception of calculate_historical_balance ends analyze
AnalyzeBalance ==
    /\ pc = "calculate_historical_balance"
    /\ \E raised \in BOOLEAN :
          /\ HistoricalBalanceStep(raised)
          /\ pc' = IF raised THEN "idle" ELSE "calculate_gini"
          /\ result' = IF raised THEN AnalyzeRaises("KeyError", NotRun) ELSE result
    /\ UNCHANGED <<call, calls>>

\* the dictionary analyze returns (lines 197-204)
AnalyzeReturns(g, b) ==
    [kind |-> "return", exc |-> "", cluster_size |-> Cardinality(cluster),
     historical_balance |-> historical_balance,
     gini_coefficient |-> g, benfords_law |-> b,
     addresses_without_data |-> Cardinality(missing_files)]

\* analyze, line 180: an exception of calculate_gini ends analyze
AnalyzeGini ==
    /\ pc = "calculate_gini"
    /\ values' = BalanceValues(historical_balance, 1)
    /\ LET g == CalculateGini(BalanceValues(historical_balance, 1))
       IN /\ gini' = g
          /\ IF g.kind = "raise"
             THEN pc' = "idle" /\ result' = AnalyzeRaises(g.exc, g)
             ELSE pc' = "apply_benfords_law" /\ result' = result
    /\ UNCHANGED <<rawaddr, cluster, transactions, historical_balance, missing_files,
                   to_process, start_address, call, calls, enqueued, loaded, history,
                   benfords>>
    /\ UNCHANGED <<selfmin, explorer>>

\* analyze, lines 184-204: an exception of apply_benfords_law ends analyze,
\* otherwise the result is returned
AnalyzeBenford ==
    /\ pc = "apply_benfords_law"
    /\ \E b \in BenfordOutcomes(GetClusterValues) :
          /\ benfords' = b
          /\ result' = IF b.kind = "raise"
                       THEN [AnalyzeRaises(b.exc, gini) EXCEPT !.benfords_law = b]
                       ELSE AnalyzeReturns(gini, b)
    /\ pc' = "idle"
    /\ UNCHANGED <<rawaddr, cluster, transactions, historical_balance, missing_files,
                   to_process, start_address, call, calls, enqueued, loaded, history,
                   values, gini>>
    /\ UNCHANGED <<selfmin, explorer>>

\* a call of apply_benfords_law()
ApplyBenfordsLaw ==
    /\ TopLevel("apply_benfords_law")
    /\ pc' = "idle"
    /\ \E b \in BenfordOutcomes(GetClusterValues) : benfords' = b
    /\ UNCHANGED <<rawaddr, cluster, transactions, historical_balance, missing_files,
                   to_process, start_address, enqueued, loaded, history, values, gini,
                   result>>
    /\ UNCHANGED <<selfmin, explorer>>

Next ==
    \/ \E s \in Addr : ClusterAddress(s)
    \/ \E s \in Addr : Analyze(s)
    \/ \E a \in Addr : WhileBody(a)
    \/ CalculateHistoricalBalance
    \/ AnalyzeBalance
    \/ AnalyzeGini
    \/ AnalyzeBenford
    \/ ApplyBenfordsLaw

Spec == Init /\ [][Next]_vars

\* cluster_address runs its loop to the end: a turn that can be taken is taken
LiveSpec == Spec /\ WF_vars(\E a \in Addr : WhileBody(a))

\* --------------------------------------------- the analyzer used again
\* a second call of analyze, with any seed, on the analyzer whose first
\* analyze has ended (lines 172, 68-69); the locals of analyze are new
AnalyzeAgain(s) ==
    /\ pc = "idle"
    /\ call = "analyze"
    /\ calls = 1
    /\ calls' = 2
    /\ cluster' = cluster \cup {s}
    /\ to_process' = {s}
    /\ start_address' = s
    /\ pc' = "while"
    /\ enqueued' = [a \in Addr |-> IF a = s THEN 1 ELSE 0]
    /\ loaded' = [a \in Addr |-> 0]
    /\ values' = <<>>
    /\ gini' = NotRun
    /\ benfords' = NotRun
    /\ result' = NoResult
    /\ UNCHANGED <<rawaddr, transactions, historical_balance, missing_files, history,
                   call>>
    /\ UNCHANGED <<selfmin, explorer>>

NextAgain ==
    \/ Next
    \/ \E s \in Addr : AnalyzeAgain(s)

AgainSpec == Init /\ [][NextAgain]_vars

\* --------------------------------------- calculate_gini called on its own
\* calculate_gini reads nothing of the analyzer: it is called with a list of
\* at most GiniMaxLen values in 0..GiniMaxValue on an analyzer of an empty
\* folder
GiniInputs == UNION {[1..n -> 0..GiniMaxValue] : n \in 0..GiniMaxLen}

GiniInit ==
    /\ rawaddr = [a \in Addr |-> [status |-> Unopened, txs |-> <<>>]]
    /\ values \in GiniInputs
    /\ NewAnalyzer
    /\ NoSelfmin
    /\ NoExplorer

\* a call of calculate_gini(values)
CalculateGiniCall ==
    /\ pc = "idle"
    /\ call = "none"
    /\ call' = "calculate_gini"
    /\ calls' = calls + 1
    /\ gini' = CalculateGini(values)
    /\ UNCHANGED <<rawaddr, cluster, transactions, historical_balance, missing_files,
                   to_process, start_address, pc, enqueued, loaded, history, values,
                   benfords, result>>
    /\ UNCHANGED <<selfmin, explorer>>

GiniSpec == GiniInit /\ [][CalculateGiniCall]_vars

\* ------------------------------------------- selfmin.py: calc_pvalue
\* count_sequences gives the lengths of the miner's runs: positive numbers
\* whose sum is the number of blocks of the miner, the same in the month and
\* in each of its permutations
RunLists(k) ==
    {rs \in UNION {[1..n -> 1..k] : n \in 1..k} : SumSeq(rs, 1) = k}

\* max(seq)
MaxRun(seq) == MaxOf(seq, 1)

\* stats.percentileofscore(a, score), kind='rank': the percentage
\* (left + right + (1 if right > left else 0)) * 50 / n, as a fraction
PercentileOfScore(a, score) ==
    LET left == Cardinality({i \in DOMAIN a : a[i] < score})
        right == Cardinality({i \in DOMAIN a : a[i] <= score})
    IN [num |-> (left + right + (IF right > left THEN 1 ELSE 0)) * 50,
        den |-> Len(a)]

\* calc_pvalue (lines 94-100)
CalcPvalue(seqs, perms) ==
    PercentileOfScore([i \in DOMAIN perms |-> MaxRun(perms[i])], MaxRun(seqs))

\* main has counted the runs of the month and of the permutations (lines
\* 123-124)
SelfminInit ==
    /\ \E k \in 1..MaxMinerBlocks :
          /\ sequences \in RunLists(k)
          /\ perm_sequences \in UNION {[1..n -> RunLists(k)] : n \in 1..MaxPermutations}
    /\ pvalue = NoPvalue
    /\ rawaddr = [a \in Addr |-> [status |-> Unopened, txs |-> <<>>]]
    /\ values = <<>>
    /\ NewAnalyzer
    /\ NoExplorer

\* main, line 125
MainCalcPvalue ==
    /\ pvalue = NoPvalue
    /\ pvalue' = CalcPvalue(sequences, perm_sequences)
    /\ UNCHANGED <<rawaddr, cluster, transactions, historical_balance, missing_files,
                   to_process, start_address, pc, call, calls, enqueued, loaded,
                   history, values, gini, benfords, result, sequences, perm_sequences>>
    /\ UNCHANGED explorer

SelfminSpec == SelfminInit /\ [][MainCalcPvalue]_vars

\* -------------------------------- blockchain_explorer1.py: the explorer
MAX_RETRIES == 3
RETRY_DELAY == 5

\* a raw transaction of the API: a dict; its one output has an address or not
RawTx(h, a) ==
    [type |-> "dict", hash |-> h, fee |-> 0, inputs |-> <<>>,
     out |-> <<[has_addr |-> a # NoAddr, addr |-> a]>>]

\* the raw blocks /rawblock can answer with: at most MaxBlockTxs transactions
RawBlocks ==
    {[type |-> "dict", height |-> 1, hash |-> 1,
      tx |-> [i \in DOMAIN outs |-> RawTx(i, outs[i])]] :
        outs \in UNION {[1..n -> {NoAddr, 1}] : n \in 0..MaxBlockTxs}}

\* what /latestblock answers with
LatestBlock == [type |-> "dict", hash |-> 1]

\* the JSON bodies a request for u can be answered with
Responses(u) == IF u = "latestblock" THEN {LatestBlock} ELSE RawBlocks

\* what session.get, raise_for_status and response.json can do (lines 42-45)
GetOutcomes == {"ok", "ClientError", "OtherError"}

\* (mutant) the last attempt is retried like the others
ShouldRetryAlways(n) == n < MAX_RETRIES

\* line 46
ShouldRetry(n) == n < MAX_RETRIES - 1

\* _create_transaction (lines 73-82)
CreateTransaction(tx) ==
    [type |-> "Transaction", hash |-> tx.hash, fee |-> tx.fee,
     inputs |-> Len(tx.inputs), outputs |-> Len(tx.out),
     receiving_addresses |->
        SelectSeq([i \in DOMAIN tx.out |-> tx.out[i].addr], LAMBDA a : a # NoAddr)]

\* _get_coinbase_transaction (lines 66-71)
GetCoinbaseTransaction(block_data) ==
    IF block_data.tx # <<>> THEN CreateTransaction(block_data.tx[1]) ELSE NoBlock

\* Python's a != b for a dict a: a dict is equal to dicts only, so it differs
\* from a Transaction object and from None
DictNe(a, b) == IF b.type = "dict" THEN a # b ELSE TRUE

\* the list comprehension of lines 56-58, from transaction i on
RECURSIVE BlockTransactions(_, _, _)
BlockTransactions(txs, i, coinbase_tx) ==
    IF i > Len(txs) THEN <<>>
    ELSE (IF DictNe(txs[i], coinbase_tx) THEN <<CreateTransaction(txs[i])>> ELSE <<>>)
         \o BlockTransactions(txs, i + 1, coinbase_tx)

\* _build_block (lines 53-64)
BuildBlock(block_data) ==
    LET coinbase_tx == GetCoinbaseTransaction(block_data)
    IN [type |-> "Block", height |-> block_data.height, hash |-> block_data.hash,
        coinbase_tx |-> coinbase_tx,
        transactions |-> BlockTransactions(block_data.tx, 1, coinbase_tx)]

\* explore_latest_block is about to run (line 98)
ExplorerInit ==
    /\ epc = "start"
    /\ url = ""
    /\ attempt = 0
    /\ log = <<>>
    /\ outcome = NoOutcome
    /\ block = NoBlock
    /\ rawaddr = [a \in Addr |-> [status |-> Unopened, txs |-> <<>>]]
    /\ values = <<>>
    /\ NewAnalyzer
    /\ NoSelfmin

\* _make_request(u) is entered: the for loop starts (lines 39-40)
MakeRequest(u) ==
    /\ epc' = "get"
    /\ url' = u
    /\ attempt' = 0
    /\ log' = <<>>
    /\ outcome' = NoOutcome

\* get_latest_block, line 28
GetLatestBlock ==
    /\ epc = "start"
    /\ MakeRequest("latestblock")
    /\ UNCHANGED <<block, analyzer, selfmin>>

\* one attempt (lines 41-50): the GET succeeds and its JSON is returned, or it
\* fails with a ClientError, which is retried after a sleep or raised, or
\* with another exception, which is not caught
Get ==
    /\ epc = "get"
    /\ \E r \in GetOutcomes, data \in Responses(url) :
          /\ log' = Append(log, [event |-> r, attempt |-> attempt])
          /\ IF r = "ok"
             THEN /\ epc' = "returned"
                  /\ outcome' = [kind |-> "return", attempt |-> attempt, data |-> data]
             ELSE IF r = "ClientError" /\ ShouldRetry(attempt)
             THEN /\ epc' = "sleep"
                  /\ outcome' = outcome
             ELSE /\ epc' = "raised"
                  /\ outcome' = [kind |-> "raise", attempt |-> attempt, exc |-> r]
    /\ UNCHANGED <<url, attempt, block, analyzer, selfmin>>

\* asyncio.sleep(RETRY_DELAY) (line 48) and the next turn of the for loop;
\* when the loop is exhausted, line 51 returns the fallback dictionary
Sleep ==
    /\ epc = "sleep"
    /\ log' = Append(log, [event |-> "sleep", attempt |-> attempt,
                           delay |-> RETRY_DELAY])
    /\ attempt' = attempt + 1
    /\ IF attempt + 1 < MAX_RETRIES
       THEN epc' = "get" /\ outcome' = outcome
       ELSE epc' = "returned" /\ outcome' = [kind |-> "fallback"]
    /\ UNCHANGED <<url, block, analyzer, selfmin>>

\* get_latest_block, lines 29-30, and get_block: the hash is read (a KeyError
\* on the fallback dictionary) and the raw block is requested
GetBlock ==
    /\ epc = "returned"
    /\ url = "latestblock"
    /\ IF outcome.kind = "return"
       THEN MakeRequest("rawblock")
       ELSE epc' = "raised" /\ UNCHANGED <<url, attempt, log, outcome>>
    /\ UNCHANGED <<block, analyzer, selfmin>>

\* get_latest_block, line 31: _build_block of the raw block (a KeyError on the
\* fallback dictionary)
BuildLatestBlock ==
    /\ epc = "returned"
    /\ url = "rawblock"
    /\ IF outcome.kind = "return"
       THEN epc' = "done" /\ block' = BuildBlock(outcome.data)
       ELSE epc' = "raised" /\ block' = block
    /\ UNCHANGED <<url, attempt, log, outcome, analyzer, selfmin>>

ExplorerNext ==
    \/ GetLatestBlock
    \/ Get
    \/ Sleep
    \/ GetBlock
    \/ BuildLatestBlock

ExplorerSpec == ExplorerInit /\ [][ExplorerNext]_vars

\* ------------------------------------------------------------- claims
\* the addresses a raw transaction names: the prev_out address of each input
\* that has one, the address of each output that has one
TxAddresses(tx) ==
    {e.addr : e \in {tx.inputs[i] : i \in DOMAIN tx.inputs}
                    \cup {[prev_out |-> TRUE, addr |-> tx.outputs[i].addr,
                           value |-> tx.outputs[i].value] : i \in DOMAIN tx.outputs}}
    \ {NoAddr}

Record(a) == {rawaddr[a].txs[i] : i \in DOMAIN rawaddr[a].txs}

\* the addresses the loadable record of a names
Linked(a) ==
    IF rawaddr[a].status = "ok" THEN UNION {TxAddresses(tx) : tx \in Record(a)} ELSE {}

\* the least set that holds S and is closed under linkage
RECURSIVE Closure(_)
Closure(S) ==
    LET T == S \cup UNION {Linked(a) : a \in S}
    IN IF T = S THEN S ELSE Closure(T)

\* a traversal of the analyzer has finished, and none is running
TraversalFinished == history # <<>> /\ pc # "while"
\* the first traversal of the analyzer has finished and is its last so far
FirstTraversalFinished == Len(history) = 1 /\ pc # "while"
Seed == history[1][1]

\* C1: when cluster_address(seed) has finished on a fresh analyzer, the seed is
\* in the cluster, and for every cluster address whose record was loaded, every
\* address named by an input's prev_out or an output of a transaction of that
\* record is in the cluster.
C1_ClusterClosed ==
    FirstTraversalFinished =>
        /\ Seed \in cluster
        /\ \A a \in cluster :
              rawaddr[a].status = "ok" =>
                 /\ transactions[a] = rawaddr[a].txs
                 /\ \A tx \in Record(a) : TxAddresses(tx) \subseteq cluster

\* a finished first traversal that reached an address the seed's record does
\* not name, through a loaded record
C1_Witness ==
    /\ FirstTraversalFinished
    /\ \E a \in cluster \ {Seed} : a \notin Linked(Seed) /\ rawaddr[a].status = "ok"

\* C2: the loop of cluster_address terminates, whatever address is popped, and
\* no address is put on the worklist more than once during a traversal.
C2_TerminatesEnqueueOnce ==
    /\ [](\A a \in Addr : enqueued[a] <= 1)
    /\ (pc = "while") ~> (to_process = {} /\ pc # "while")

\* a finished traversal that queued every address, two of them at once
C2_Witness ==
    /\ TraversalFinished
    /\ \A a \in Addr : enqueued[a] = 1
    /\ Cardinality(Linked(Seed) \ {Seed}) >= 2

\* C3: during one traversal load_address_data is called at most once for an
\* address, and in the traversal of a fresh analyzer exactly once for each
\* address that ends up in the cluster (and for no other).
C3_LoadedOnce ==
    /\ \A a \in Addr : loaded[a] <= 1
    /\ FirstTraversalFinished =>
          \A a \in Addr : loaded[a] = IF a \in cluster THEN 1 ELSE 0

\* a finished first traversal of three addresses
C3_Witness == FirstTraversalFinished /\ Cardinality(cluster) >= 3

\* C4: a second cluster_address run on the same seed, the store unchanged,
\* ends with the cluster the first run ended with.
C4_Idempotent ==
    \A i \in 1..(Len(history) - 1) :
        history[i + 1][1] = history[i][1] => history[i + 1][2] = history[i][2]

\* two finished runs on a seed whose cluster has three addresses
C4_Witness ==
    /\ Len(history) = 2
    /\ pc # "while"
    /\ history[2][1] = history[1][1]
    /\ Cardinality(history[1][2]) >= 3

\* C5: the cluster and the missing-data set a finished traversal leaves are
\* functions of the store and the seed alone: the closure of the seed under
\* linkage through the records that load, and its addresses whose file is not
\* found. No pop order can end with another cluster.
C5_OrderIndependent ==
    TraversalFinished =>
        /\ cluster = Closure({Seed})
        /\ \A a \in cluster : rawaddr[a].status # Unopened
        /\ missing_files = {a \in cluster : rawaddr[a].status = "FileNotFoundError"}

\* a finished traversal during which two addresses were waiting at once, one
\* of them with a file that is not found
C5_Witness ==
    /\ TraversalFinished
    /\ Cardinality(Linked(Seed) \ {Seed}) >= 2
    /\ missing_files # {}

\* the step is a turn of the while loop that pops a
Pops(a) == pc = "while" /\ a \in to_process /\ a \notin to_process'

\* C6: a turn of the loop for an address that has no transactions (an empty
\* record, or a record that could not be loaded) adds nothing to the cluster
\* and nothing to the worklist.
C6_NoTransactionsNoExpansion ==
    [][\A a \in Addr :
          (Pops(a) /\ (rawaddr'[a].status # "ok" \/ rawaddr[a].txs = <<>>)) =>
              /\ cluster' = cluster
              /\ to_process' = to_process \ {a}]_vars

\* an address whose record could not be loaded, in a cluster of several, the
\* record naming an address that is not in the cluster
C6_Witness ==
    /\ TraversalFinished
    /\ \E a \in cluster :
          /\ loaded[a] = 1
          /\ rawaddr[a].status \notin {"ok", Unopened}
          /\ \E tx \in Record(a) : ~(TxAddresses(tx) \subseteq cluster)

\* C7: when the file of a popped address is not found, the address is recorded
\* in missing_files, stays in the cluster, has no transactions in the index,
\* and the loop goes on with the rest of the worklist; a seed whose file is not
\* found leaves cluster = {seed}, one missing file and, after
\* calculate_historical_balance, an empty historical balance.
C7_MissingRecord ==
    /\ [][\A a \in Addr :
            (Pops(a) /\ rawaddr'[a].status = "FileNotFoundError") =>
                /\ a \in missing_files'
                /\ a \in cluster'
                /\ transactions'[a] = <<>>
                /\ to_process' = to_process \ {a}
                /\ pc' = "while" <=> to_process' # {}]_vars
    /\ []((TraversalFinished /\ rawaddr[Seed].status = "FileNotFoundError") =>
            /\ cluster = {Seed}
            /\ Cardinality(missing_files) = 1
            /\ historical_balance = <<>>)

\* calculate_historical_balance has run on the cluster of a seed whose file is
\* not found
C7_Witness ==
    /\ TraversalFinished
    /\ rawaddr[Seed].status = "FileNotFoundError"
    /\ call = "calculate_historical_balance"

\* analyze has ended, by a return or by an exception
AnalyzeEnded == call = "analyze" /\ pc = "idle" /\ result.kind # "none"

\* C8: when analyze ends on a cluster with no values to analyze (no balance
\* entry and no net flow), its outcome carries an explicit failure of the Gini
\* statistic and an explicit failure of the Benford statistic.
C8_BothFailuresReported ==
    (AnalyzeEnded /\ historical_balance = <<>> /\ GetClusterValues = <<>>) =>
        /\ result.gini_coefficient.kind = "raise"
        /\ result.benfords_law.kind = "raise"

\* C9: calculate_gini fails explicitly when its values are all zero or there
\* are none: here for the balance values analyze passes to it.
C9_GiniFailsExplicitly ==
    (call = "analyze" /\ gini.kind # "not_run"
       /\ \A k \in DOMAIN historical_balance : historical_balance[k] = 0) =>
        gini.kind = "raise"

\* the outcome in benfords is that of apply_benfords_law on the present state
BenfordsCurrent ==
    \/ call = "apply_benfords_law" /\ pc = "idle"
    \/ AnalyzeEnded /\ benfords.kind # "not_run"

\* C10: apply_benfords_law raises when the cluster has no nonzero net flow,
\* and no dictionary it returns holds a NaN frequency or statistic.
C10_BenfordFailsExplicitly ==
    BenfordsCurrent =>
        /\ GetClusterValues = <<>> => benfords.kind = "raise"
        /\ benfords.kind # "nan"
        /\ \A d \in DOMAIN benfords.observed : ~IsNaN(benfords.observed[d])

\* apply_benfords_law has raised on a cluster of several addresses whose
\* transactions all have a zero net flow
C10_Witness ==
    /\ BenfordsCurrent
    /\ GetClusterValues = <<>>
    /\ benfords.kind = "raise"
    /\ \E a \in cluster : transactions[a] # <<>>

\* calculate_historical_balance has run once on this analyzer, after its
\* traversal
BalanceComputed ==
    \/ call = "calculate_historical_balance" /\ pc = "idle" /\ calls = 2
         /\ history # <<>>
    \/ call = "analyze" /\ pc \notin {"while", "calculate_historical_balance"}

\* the timestamps of the transactions the index holds for cluster addresses
IndexedTimes ==
    UNION {{transactions[a][i].time : i \in DOMAIN transactions[a]} : a \in cluster}

\* what the indexed transactions of address a with time <= t add to a's balance
RECURSIVE FlowsOfUpTo(_, _, _)
FlowsOfUpTo(a, i, t) ==
    IF i > Len(transactions[a]) THEN 0
    ELSE (IF transactions[a][i].time <= t THEN BalanceDelta(transactions[a][i], a)
          ELSE 0) + FlowsOfUpTo(a, i + 1, t)

\* the net sum of the indexed flows of the cluster addresses from a on
RECURSIVE NetUpTo(_, _)
NetUpTo(a, t) ==
    IF a > NumAddr THEN 0
    ELSE (IF a \in cluster THEN FlowsOfUpTo(a, 1, t) ELSE 0) + NetUpTo(a + 1, t)

\* C11: after calculate_historical_balance the keys of historical_balance are
\* the timestamps of the indexed transactions of the cluster addresses, and
\* the value at key t is the net sum of all indexed flows with time <= t.
C11_RunningTotal ==
    BalanceComputed =>
        /\ DOMAIN historical_balance = IndexedTimes
        /\ \A t \in DOMAIN historical_balance : historical_balance[t] = NetUpTo(1, t)

\* analyze(A) has ended on the end-to-end folder, the records of A and B read
EndToEndAnalyzed ==
    /\ AnalyzeEnded
    /\ start_address = 1
    /\ \A a \in Addr : rawaddr[a].txs = EndToEndStore[a].txs
    /\ rawaddr[1].status = "ok"
    /\ rawaddr[2].status = "ok"

\* C12: in the end-to-end scenario analyze(A) returns a result with cluster
\* {A, B}, no address without data and the historical balance
\* {100: +10, 200: +6}.
C12_EndToEnd ==
    EndToEndAnalyzed =>
        /\ result.kind = "return"
        /\ cluster = {1, 2}
        /\ result.cluster_size = 2
        /\ result.addresses_without_data = 0
        /\ result.historical_balance = (100 :> 10) @@ (200 :> 6)

\* the distinct transactions the index holds for cluster addresses
IndexedTxs ==
    UNION {{transactions[a][i] : i \in DOMAIN transactions[a]} : a \in cluster}

\* C13: the flow sample apply_benfords_law reads holds, for each distinct
\* indexed transaction of the cluster with a nonzero net flow, the absolute
\* value of that flow once, and nothing else.
C13_OneValuePerTransaction ==
    BenfordsCurrent =>
        \A v \in {Abs(NetFlow(tx)) : tx \in IndexedTxs}
                 \cup {GetClusterValues[i] : i \in DOMAIN GetClusterValues} :
            v # 0 =>
               Cardinality({i \in DOMAIN GetClusterValues : GetClusterValues[i] = v})
                 = Cardinality({tx \in IndexedTxs : Abs(NetFlow(tx)) = v})

\* C14: for a non-empty flow sample apply_benfords_law returns an observed
\* table with the nine keys 1..9, observed[d] being the number of flows with
\* leading digit d over the number of flows, whatever the largest leading
\* digit of the sample.
C14_NineObservedKeys ==
    (BenfordsCurrent /\ GetClusterValues # <<>>) =>
        /\ benfords.kind = "value"
        /\ DOMAIN benfords.observed = 1..9
        /\ \A d \in 1..9 :
              benfords.observed[d] =
                 <<Cardinality({i \in DOMAIN GetClusterValues :
                                   LeadingDigit(GetClusterValues[i]) = d}),
                   Len(GetClusterValues)>>

\* the rank of values[i] in an ascending sort that keeps ties in order
RankOf(vs, i) ==
    Cardinality({j \in DOMAIN vs : vs[j] < vs[i]})
      + Cardinality({j \in 1..i : vs[j] = vs[i]})

\* the values in the order p
Permuted(vs, p) == [i \in DOMAIN vs |-> vs[p[i]]]

\* calculate_gini was called on a non-empty list of non-negative values that
\* are not all zero
GiniDefined ==
    /\ call = "calculate_gini"
    /\ values # <<>>
    /\ \A i \in DOMAIN values : values[i] >= 0
    /\ \E i \in DOMAIN values : values[i] > 0

\* C15: on a non-empty list of non-negative integers with a positive sum
\* calculate_gini returns 2*sum(rank*value)/(n*sum(value)) - (n+1)/n with the
\* ranks of an ascending sort, the same for every order of the list; it is 0
\* when the values are all equal, (n-1)/n when one value only is not zero, and
\* it lies in [0, 1].
C15_GiniValue ==
    GiniDefined =>
        LET n == Len(values)
            S == SumSeq(values, 1)
            R == SumSeq([i \in DOMAIN values |-> RankOf(values, i) * values[i]], 1)
        IN /\ gini.kind = "value"
           /\ gini.den > 0
           /\ gini.num * (n * S) = (2 * R - (n + 1) * S) * gini.den
           /\ \A p \in IterationOrders(DOMAIN values) :
                 CalculateGini(Permuted(values, p)) = gini
           /\ (\A i \in DOMAIN values : values[i] = values[1]) => gini.num = 0
           /\ Cardinality({i \in DOMAIN values : values[i] # 0}) = 1 =>
                 gini.num * n = (n - 1) * gini.den
           /\ 0 <= gini.num /\ gini.num <= gini.den

\* calculate_gini([1, 0, 0, 0]) has returned 3/4
C15_Witness ==
    /\ GiniDefined
    /\ values = <<1, 0, 0, 0>>
    /\ gini.kind = "value"
    /\ gini.num * 4 = 3 * gini.den

\* the cluster addresses whose record a load_address_data call failed to load
NotLoaded == {a \in cluster : rawaddr[a].status \notin {"ok", Unopened}}

\* C16: no error of load_address_data escapes cluster_address, and every
\* address whose record could not be loaded (file not found, undecodable,
\* key missing) is counted in the addresses_without_data analyze returns.
C16_FetchErrorsCounted ==
    (AnalyzeEnded /\ result.kind = "return") =>
        result.addresses_without_data = Cardinality(NotLoaded)

\* C17: a record that lacks an expected field is not fatal: no KeyError ends
\* analyze, and none ends apply_benfords_law.
C17_MalformedRecordNotFatal ==
    /\ AnalyzeEnded => result.exc # "KeyError"
    /\ BenfordsCurrent => benfords.exc # "KeyError"

\* the second analyze of the analyzer has returned
SecondAnalyzeReturned == AnalyzeEnded /\ calls = 2 /\ result.kind = "return"

\* C18: the result of a second analyze(s2) on an analyzer is the result of
\* analyze(s2) on a new analyzer: the cluster is the linkage closure of s2,
\* the addresses without data are those of that closure whose file is not
\* found, and the balance has the timestamps of that closure's records.
C18_FreshPerInvocation ==
    SecondAnalyzeReturned =>
        LET fresh == Closure({start_address})
        IN /\ cluster = fresh
           /\ result.cluster_size = Cardinality(fresh)
           /\ result.addresses_without_data =
                 Cardinality({a \in fresh : rawaddr[a].status = "FileNotFoundError"})
           /\ DOMAIN result.historical_balance =
                 UNION {{tx.time : tx \in Record(a)} :
                          a \in {b \in fresh : rawaddr[b].status = "ok"}}

\* the permutations whose longest run is at least the observed longest run
AtLeastObserved ==
    {i \in DOMAIN perm_sequences : MaxRun(perm_sequences[i]) >= MaxRun(sequences)}

\* C19: the p-value calc_pvalue returns is the proportion, a number in
\* [0, 1], of the permutations whose longest run of the miner is equal to or
\* greater than the observed longest run.
C19_PvalueIsProportion ==
    pvalue # NoPvalue =>
        /\ 0 <= pvalue.num /\ pvalue.num <= pvalue.den
        /\ pvalue.num * Len(perm_sequences) = Cardinality(AtLeastObserved) * pvalue.den

\* the first traversal of the analyzer is running or has finished
FirstTraversal ==
    \/ pc = "while" /\ history = <<>>
    \/ FirstTraversalFinished

\* the addresses named by the index entry of b
IndexLinked(b) ==
    UNION {TxAddresses(transactions[b][i]) : i \in DOMAIN transactions[b]}

\* C20: at every step of the traversal of a fresh analyzer the worklist and
\* the missing-data set are subsets of the cluster, every cluster member is
\* the seed or an address named by a transaction of the loaded record of a
\* cluster member, and the cluster stays within the seed's linkage closure.
C20_TraversalInvariant ==
    FirstTraversal =>
        /\ to_process \subseteq cluster
        /\ missing_files \subseteq cluster
        /\ \A a \in cluster :
              a = start_address \/ \E b \in cluster : a \in IndexLinked(b)
        /\ cluster \subseteq Closure({start_address})

\* the first traversal is under way with addresses waiting, a file found
\* missing and a cluster of three
C20_Witness ==
    /\ pc = "while"
    /\ history = <<>>
    /\ to_process # {}
    /\ missing_files # {}
    /\ Cardinality(cluster) >= 3

\* every indexed entry of the cluster that the balance reads has its 'value'
BalanceReadable ==
    \A a \in cluster : \A i \in DOMAIN transactions[a] :
        ~ValueKeyError(transactions[a][i], {a})

\* C21: the mapping calculate_historical_balance leaves is the same for every
\* order in which the addresses of the cluster are iterated.
C21_BalanceOrderIndependent ==
    (BalanceComputed /\ BalanceReadable) =>
        \A order \in IterationOrders(cluster) :
            BalanceAddrs(order, 1, 0, <<>>).hb = historical_balance

\* the GET attempts of the running / last _make_request
Gets == {i \in DOMAIN log : log[i].event # "sleep"}
ClientErrors == {i \in DOMAIN log : log[i].event = "ClientError"}

\* C22: one _make_request makes at most MAX_RETRIES GETs; it returns the
\* response of the first successful attempt and attempts nothing after it; a
\* ClientError of an attempt that is not the last is followed by one sleep of
\* RETRY_DELAY and then the next attempt; after MAX_RETRIES ClientErrors the
\* last one is raised with no sleep after it; the fallback dictionary is
\* never returned.
C22_MakeRequestRetries ==
    /\ Cardinality(Gets) <= MAX_RETRIES
    /\ \A i \in DOMAIN log :
          log[i].event = "ok" =>
             /\ i = Len(log)
             /\ \A j \in 1..(i - 1) : log[j].event \in {"ClientError", "sleep"}
             /\ epc \in {"returned", "done"}
             /\ outcome.kind = "return"
             /\ outcome.attempt = log[i].attempt
    /\ outcome.kind = "return" => log # <<>> /\ log[Len(log)].event = "ok"
    /\ \A i \in ClientErrors :
          log[i].attempt < MAX_RETRIES - 1 =>
             /\ i = Len(log) => epc = "sleep"
             /\ i < Len(log) =>
                   /\ log[i + 1].event = "sleep"
                   /\ log[i + 1].delay = RETRY_DELAY
             /\ i + 1 < Len(log) =>
                   /\ log[i + 2].event # "sleep"
                   /\ log[i + 2].attempt = log[i].attempt + 1
    /\ Cardinality(ClientErrors) = MAX_RETRIES =>
          /\ epc = "raised"
          /\ outcome = [kind |-> "raise", attempt |-> MAX_RETRIES - 1,
                        exc |-> "ClientError"]
          /\ log[Len(log)].event = "ClientError"
    /\ outcome.kind # "fallback"

\* the request for the raw block has failed three times and raised
C22_Witness ==
    /\ url = "rawblock"
    /\ epc = "raised"
    /\ Cardinality(ClientErrors) = MAX_RETRIES
    /\ Len(log) = 5

\* C23: the Block built from a raw block with at least one transaction has the
\* first raw transaction as coinbase_tx and a transactions list without it, so
\* that len(transactions) + 1 is the number of transactions of the raw block.
C23_CoinbaseExcluded ==
    (epc = "done" /\ outcome.data.tx # <<>>) =>
        /\ block.coinbase_tx = CreateTransaction(outcome.data.tx[1])
        /\ \A i \in DOMAIN block.transactions :
              block.transactions[i].hash # block.coinbase_tx.hash
        /\ Len(block.transactions) + 1 = Len(outcome.data.tx)
====
